---------------------------- MODULE Spec2Model ----------------------------
(* Model of the group-topic form (TopicForm.tsx) and of the group-post     *)
(* data source (useGroupPost).  Every action is one run-to-completion step *)
(* of the single-threaded UI event loop: an event handler up to its first  *)
(* await, or the continuation that runs when an awaited promise settles.   *)
EXTENDS Integers, Sequences, FiniteSets, TLC

VARIABLES
    phase,        \* "unmounted" | "error" (constructor threw) | "mounted"
    groupName,    \* prop groupName
    topic,        \* prop topic: <<>> when absent, <<TopicDetail>> when given
    formCreated,  \* useForm / useState have run
    formValues,   \* react-hook-form values: title, text, cf-turnstile-response
    sending,      \* useState(false)
    subs,         \* one record per confirmation (a call of handleSubmit(...)())
    cache,        \* SWR cache: key -> <<>> or <<payload>>
    FETCH,        \* SWR in-flight requests: key -> <<>> or <<id the fetcher closes over>>
    reads,        \* remote reads getGroupPost(id) not yet answered, per id
    consumers     \* components that called useGroupPost(id)

vars == <<phase, groupName, topic, formCreated, formValues, sending, subs,
          cache, FETCH, reads, consumers>>

-----------------------------------------------------------------------------
(* Bounds *)
MaxSubmits == 2
MaxConsumers == 3
MaxId == 3

(* JavaScript's undefined, kept apart from the empty string *)
Undefined == "<undefined>"
Truthy(v) == v # Undefined /\ v # ""

(* Input domains *)
GroupNames == {Undefined, "", "life"}
ExistingTopic == [id |-> 7, title |-> "old", text |-> "old body", creator |-> "alice"]
NoTopic == <<>>
TopicProps == {NoTopic, <<[data |-> ExistingTopic]>>}
Titles == {"", "new"}
Texts == {"", "new body"}
(* the challenge issues a one-time token: the k-th confirmation's challenge, *)
(* when it succeeds, answers a token no other challenge answers            *)
TokenOf(i) == "token-" \o ToString(i)
NewIds == {42}
Messages == {"biao ti guo chang"}       \* a server-supplied data.message
StatusOK == 200
NoResponse == [status |-> 0, id |-> 0, message |-> ""]
NoData == [title |-> Undefined, text |-> Undefined, cf |-> Undefined]  \* onSubmit was not called
NotYet == "<not yet>"                   \* `token` before execute() has settled
Responses ==
    {[status |-> StatusOK, id |-> n, message |-> ""] : n \in NewIds}
    \cup {[status |-> s, id |-> 0, message |-> m] : s \in {400}, m \in Messages}

(* The two `required` messages; the source strings are Chinese:            *)
(*   title: U+8BF7 U+586B U+5199 U+6807 U+9898                             *)
(*   text : U+8BF7 U+586B U+5199 U+6B63 U+6587 U+5185 U+5BB9               *)
TitleRequired == "qing tianxie biaoti"
TextRequired == "qing tianxie zhengwen neirong"

-----------------------------------------------------------------------------
(* Pure parts of TopicForm *)

(* faulty variant: only the "both given" half of the usage test *)
InvalidUsageBothOnly(g, t) == Truthy(g) /\ t # NoTopic

InvalidUsage(g, t) ==
    (Truthy(g) /\ t # NoTopic) \/ (~Truthy(g) /\ t = NoTopic)

defaultValues(t) ==
    [title |-> IF t # NoTopic THEN t[1].data.title ELSE Undefined,
     text  |-> IF t # NoTopic THEN t[1].data.text ELSE Undefined,
     cf    |-> Undefined]

(* react-hook-form's `required` rule: undefined and '' are empty *)
IsEmptyValue(v) == v = Undefined \/ v = ""

(* faulty variant: the body has no `required` rule *)
ValidateTitleOnly(values) ==
    IF IsEmptyValue(values.title) THEN <<[field |-> "title", message |-> TitleRequired]>>
    ELSE <<>>

(* errors in field registration order: title (FormInput), text (FormEditor) *)
Validate(values) ==
    (IF IsEmptyValue(values.title)
        THEN <<[field |-> "title", message |-> TitleRequired]>> ELSE <<>>)
    \o (IF IsEmptyValue(values.text)
        THEN <<[field |-> "text", message |-> TextRequired]>> ELSE <<>>)

Toast(msg) == [kind |-> "toast", arg |-> msg]
Navigate(url) == [kind |-> "navigate", arg |-> url]
Execute == [kind |-> "execute", arg |-> Undefined]

showErrors(errors) == <<Toast(errors[1].message)>>

TopicUrl(id) == "/group/topic/" \o ToString(id)

(* faulty variant: the `if (token)` test is missing *)
TokenObtainedAlways(token) == TRUE

TokenObtained(token) == Truthy(token)

postNewTopicCall(data, g) ==
    [kind |-> "createNewGroupTopic",
     arg |-> [groupName |-> g, title |-> data.title, text |-> data.text, cf |-> data.cf]]

editTopicCall(data, id) ==
    [kind |-> "editGroupTopic",
     arg |-> [id |-> id, title |-> data.title, text |-> data.text, cf |-> data.cf]]

(* faulty variant: the toast is not in the else branch *)
postNewTopicDoneToastToo(response) ==
    IF response.status = StatusOK
    THEN <<Navigate(TopicUrl(response.id)), Toast(response.message)>>
    ELSE <<Toast(response.message)>>

(* faulty variant: navigation is not guarded by the status *)
postNewTopicDoneAlwaysNavigate(response) ==
    IF response.status = StatusOK
    THEN <<Navigate(TopicUrl(response.id))>>
    ELSE <<Toast(response.message), Navigate(TopicUrl(response.id))>>

postNewTopicDone(response) ==
    IF response.status = StatusOK
    THEN <<Navigate(TopicUrl(response.id))>>
    ELSE <<Toast(response.message)>>

(* faulty variant: mutate({ ...topic.data, ...data }) keeps the token field *)
editTopicDoneSpreadsForm(data, id, t, response) ==
    IF response.status = StatusOK
    THEN <<[kind |-> "mutate",
            arg |-> [x \in DOMAIN t[1].data \cup {"cf"} |->
                        IF x \in DOMAIN data THEN data[x] ELSE t[1].data[x]]],
           Navigate(TopicUrl(id))>>
    ELSE <<Toast(response.message)>>

editTopicDone(data, id, t, response) ==
    IF response.status = StatusOK
    THEN <<[kind |-> "mutate",
            arg |-> [t[1].data EXCEPT !.title = data.title, !.text = data.text]],
           Navigate(TopicUrl(id))>>
    ELSE <<Toast(response.message)>>

-----------------------------------------------------------------------------
(* Data source: useGroupPost *)

Ids == 1..MaxId

(* faulty variant: the key does not interpolate the id *)
KeyNoId(id) == "/group/post/"

Key(id) == "/group/post/" \o ToString(id)

Keys == {Key(id) : id \in Ids}

(* what the remote read answers for `id`; the content may change over time *)
Versions == {1, 2}
Payload(id, ver) == [id |-> id, ver |-> ver]
NoPayload == [id |-> 0, ver |-> 0]

-----------------------------------------------------------------------------
Init ==
    /\ phase = "unmounted"
    /\ groupName = Undefined
    /\ topic = NoTopic
    /\ formCreated = FALSE
    /\ formValues = defaultValues(NoTopic)
    /\ sending = FALSE
    /\ subs = <<>>
    /\ cache = [k \in Keys |-> <<>>]
    /\ FETCH = [k \in Keys |-> <<>>]
    /\ reads = [id \in Ids |-> 0]
    /\ consumers = <<>>

(* const TopicForm = ({ groupName, topic }) => { ... } : the first render *)
TopicForm(g, t) ==
    /\ phase = "unmounted"
    /\ groupName' = g
    /\ topic' = t
    /\ IF InvalidUsage(g, t)
       THEN /\ phase' = "error"
            /\ UNCHANGED <<formCreated, formValues, sending>>
       ELSE /\ phase' = "mounted"
            /\ formCreated' = TRUE
            /\ formValues' = defaultValues(t)
            /\ sending' = FALSE
    /\ UNCHANGED <<subs, cache, FETCH, reads, consumers>>

(* the user edits the title input registered with register('title') *)
ChangeTitle(v) ==
    /\ phase = "mounted"
    /\ formValues' = [formValues EXCEPT !.title = v]
    /\ UNCHANGED <<phase, groupName, topic, formCreated, sending, subs,
                   cache, FETCH, reads, consumers>>

(* the user edits the body in the Controller-bound EditorForm *)
ChangeText(v) ==
    /\ phase = "mounted"
    /\ formValues' = [formValues EXCEPT !.text = v]
    /\ UNCHANGED <<phase, groupName, topic, formCreated, sending, subs,
                   cache, FETCH, reads, consumers>>

(* faulty variant: the confirm action is disabled while sending *)
CanConfirmWhenIdle == phase = "mounted" /\ ~sending

CanConfirm == phase = "mounted"

(* onConfirm: handleSubmit(onSubmit, showErrors)().  handleSubmit copies the *)
(* form values, validates, and calls showErrors(errors) or onSubmit(data);   *)
(* onSubmit runs up to `await execute()`.                                    *)
Confirm ==
    /\ CanConfirm
    /\ Len(subs) < MaxSubmits
    /\ LET data == formValues
           errors == Validate(formValues)
       IN IF errors # <<>>
          THEN /\ subs' = Append(subs, [pc |-> "invalid", data |-> NoData, call |-> "none",
                                       token |-> NotYet, response |-> NoResponse,
                                       errors |-> errors,
                                       effects |-> showErrors(errors)])
               /\ UNCHANGED sending
          ELSE /\ sending' = TRUE
               /\ subs' = Append(subs, [pc |-> "execute", data |-> data, call |-> "none",
                                       token |-> NotYet, response |-> NoResponse,
                                       errors |-> errors,
                                       effects |-> <<Execute>>])
    /\ UNCHANGED <<phase, groupName, topic, formCreated, formValues,
                   cache, FETCH, reads, consumers>>

(* `await execute()` resolves with `token`; onSubmit continues to the next await *)
ExecuteResolved(i, token) ==
    /\ i \in 1..Len(subs)
    /\ subs[i].pc = "execute"
    /\ IF TokenObtained(token)
       THEN /\ formValues' = [formValues EXCEPT !.cf = token]
            /\ IF Truthy(groupName)
               THEN /\ subs' = [subs EXCEPT ![i].pc = "write", ![i].call = "create",
                                  ![i].token = token,
                                  ![i].effects = Append(@, postNewTopicCall(subs[i].data, groupName))]
                    /\ UNCHANGED sending
               ELSE IF topic # NoTopic
               THEN /\ subs' = [subs EXCEPT ![i].pc = "write", ![i].call = "edit",
                                  ![i].token = token,
                                  ![i].effects = Append(@, editTopicCall(subs[i].data, topic[1].data.id))]
                    /\ UNCHANGED sending
               ELSE /\ subs' = [subs EXCEPT ![i].pc = "done", ![i].token = token]
                    /\ sending' = FALSE
       ELSE /\ subs' = [subs EXCEPT ![i].pc = "done", ![i].token = token]
            /\ sending' = FALSE
            /\ UNCHANGED formValues
    /\ UNCHANGED <<phase, groupName, topic, formCreated, cache, FETCH, reads, consumers>>

(* `await execute()` rejects: onSubmit ends with the exception *)
ExecuteRejected(i) ==
    /\ i \in 1..Len(subs)
    /\ subs[i].pc = "execute"
    /\ subs' = [subs EXCEPT ![i].pc = "rejected"]
    /\ UNCHANGED <<phase, groupName, topic, formCreated, formValues, sending,
                   cache, FETCH, reads, consumers>>

(* the awaited write call answers; postNewTopic / editTopic finish, then    *)
(* onSubmit runs setSending(false)                                          *)
WriteResponded(i, response) ==
    /\ i \in 1..Len(subs)
    /\ subs[i].pc = "write"
    /\ subs' = [subs EXCEPT
                  ![i].pc = "done",
                  ![i].response = response,
                  ![i].effects = @ \o (IF subs[i].call = "create"
                                       THEN postNewTopicDone(response)
                                       ELSE editTopicDone(subs[i].data, topic[1].data.id,
                                                          topic, response))]
    /\ sending' = FALSE
    /\ UNCHANGED <<phase, groupName, topic, formCreated, formValues,
                   cache, FETCH, reads, consumers>>

(* the awaited write call rejects (network failure): onSubmit ends with the *)
(* exception, setSending(false) is not reached                              *)
WriteRejected(i) ==
    /\ i \in 1..Len(subs)
    /\ subs[i].pc = "write"
    /\ subs' = [subs EXCEPT ![i].pc = "rejected"]
    /\ UNCHANGED <<phase, groupName, topic, formCreated, formValues, sending,
                   cache, FETCH, reads, consumers>>

Next ==
    \/ \E g \in GroupNames, t \in TopicProps : TopicForm(g, t)
    \/ \E v \in Titles : ChangeTitle(v)
    \/ \E v \in Texts : ChangeText(v)
    \/ Confirm
    \/ \E i \in 1..MaxSubmits : \E token \in {TokenOf(i), Undefined, ""} : ExecuteResolved(i, token)
    \/ \E i \in 1..MaxSubmits : ExecuteRejected(i)
    \/ \E i \in 1..MaxSubmits, response \in Responses : WriteResponded(i, response)
    \/ \E i \in 1..MaxSubmits : WriteRejected(i)

Spec == Init /\ [][Next]_vars

-----------------------------------------------------------------------------
(* Data source actions.  useSWR(key, fetcher, {suspense: true}) is modelled   *)
(* by its contract: one cache entry and at most one in-flight request per    *)
(* key; a caller whose key has no data suspends until the request settles.   *)

(* a component renders useGroupPost(id) for the first time *)
useGroupPost(id, revalidate) ==
    /\ Len(consumers) < MaxConsumers
    /\ LET key == Key(id)
           start == FETCH[key] = <<>> /\ (cache[key] = <<>> \/ revalidate)
       IN /\ consumers' = Append(consumers,
                 IF cache[key] # <<>>
                 THEN [id |-> id, state |-> "ready", data |-> cache[key][1]]
                 ELSE [id |-> id, state |-> "suspended", data |-> NoPayload])
          /\ IF start
             THEN /\ FETCH' = [FETCH EXCEPT ![key] = <<id>>]
                  /\ reads' = [reads EXCEPT ![id] = @ + 1]
             ELSE UNCHANGED <<FETCH, reads>>
    /\ UNCHANGED <<cache, phase, groupName, topic, formCreated, formValues, sending, subs>>

(* the in-flight request of `key` resolves: ok(ozaClient.getGroupPost(id)) *)
FetchResolved(key, ver) ==
    /\ FETCH[key] # <<>>
    /\ LET id == FETCH[key][1]
           payload == Payload(id, ver)
       IN /\ cache' = [cache EXCEPT ![key] = <<payload>>]
          /\ reads' = [reads EXCEPT ![id] = @ - 1]
          /\ consumers' = [c \in DOMAIN consumers |->
                 IF Key(consumers[c].id) = key
                 THEN [consumers[c] EXCEPT !.state = "ready", !.data = payload]
                 ELSE consumers[c]]
    /\ FETCH' = [FETCH EXCEPT ![key] = <<>>]
    /\ UNCHANGED <<phase, groupName, topic, formCreated, formValues, sending, subs>>

(* the in-flight request of `key` fails: ok() throws, suspended callers get *)
(* the error, callers that already have data keep it                         *)
FetchFailed(key) ==
    /\ FETCH[key] # <<>>
    /\ reads' = [reads EXCEPT ![FETCH[key][1]] = @ - 1]
    /\ consumers' = [c \in DOMAIN consumers |->
           IF Key(consumers[c].id) = key /\ consumers[c].state = "suspended"
           THEN [consumers[c] EXCEPT !.state = "error"]
           ELSE consumers[c]]
    /\ FETCH' = [FETCH EXCEPT ![key] = <<>>]
    /\ UNCHANGED <<cache, phase, groupName, topic, formCreated, formValues, sending, subs>>

CacheNext ==
    \/ \E id \in Ids, revalidate \in BOOLEAN : useGroupPost(id, revalidate)
    \/ \E key \in Keys, ver \in Versions : FetchResolved(key, ver)
    \/ \E key \in Keys : FetchFailed(key)

CacheSpec == Init /\ [][CacheNext]_vars

-----------------------------------------------------------------------------
(* Properties *)

Pending(s) == s.pc \in {"execute", "write"}
OfKind(s, k) == SelectSeq(s.effects, LAMBDA e : e.kind = k)
WriteCalls(s) == SelectSeq(s.effects, LAMBDA e : e.kind \in {"createNewGroupTopic", "editGroupTopic"})
Position(s, k) == CHOOSE n \in DOMAIN s.effects : s.effects[n].kind = k
NoToken(token) == token \in {Undefined, ""}
GotToken(s) == s.token # NotYet /\ Truthy(s.token)

RECURSIVE SumWrites(_)
SumWrites(n) == IF n = 0 THEN 0 ELSE Len(WriteCalls(subs[n])) + SumWrites(n - 1)

(* C1: every submission that set the "sending" flag leaves it cleared once it *)
(* has settled, whatever the outcome, a rejected challenge or write call      *)
(* included: when no submission is pending any more, the flag is clear.       *)
C1_SendingClearedWhenSettled ==
    (\A i \in DOMAIN subs : ~Pending(subs[i])) => sending = FALSE

(* C2: the token sent in a submission's write call is the token the challenge *)
(* returned during that same submission, never an empty value and never the   *)
(* token of an earlier submission.                                            *)
C2_WriteCarriesChallengeToken ==
    \A i \in DOMAIN subs :
        \A n \in DOMAIN subs[i].effects :
            LET e == subs[i].effects[n]
            IN e.kind \in {"createNewGroupTopic", "editGroupTopic"}
                  => Truthy(e.arg.cf) /\ e.arg.cf = subs[i].token

(* C3: a confirmation with an empty title or an empty body aborts: no         *)
(* challenge, no write call, "sending" not set, exactly one message, the     *)
(* title message when only the title is empty and the body message when only *)
(* the body is empty; such a confirmation never proceeds later.              *)
C3_Step ==
    /\ (Len(subs') = Len(subs) + 1
          /\ (IsEmptyValue(formValues.title) \/ IsEmptyValue(formValues.text)))
       => LET s == subs'[Len(subs')]
          IN /\ s.pc = "invalid"
             /\ Len(s.effects) = 1
             /\ s.effects[1].kind = "toast"
             /\ s.effects[1].arg \in {TitleRequired, TextRequired}
             /\ (IsEmptyValue(formValues.title) /\ ~IsEmptyValue(formValues.text))
                   => s.effects[1].arg = TitleRequired
             /\ (IsEmptyValue(formValues.text) /\ ~IsEmptyValue(formValues.title))
                   => s.effects[1].arg = TextRequired
             /\ sending' = sending
             /\ formValues' = formValues
    /\ \A i \in DOMAIN subs : subs[i].pc = "invalid" => subs'[i] = subs[i]

C3_ValidationAborts == [][C3_Step]_vars

C3_Witness ==
    \E i, j \in DOMAIN subs :
        /\ subs[i].pc = "invalid" /\ subs[i].effects = <<Toast(TitleRequired)>>
        /\ Len(subs[i].errors) = 1
        /\ subs[j].pc = "invalid" /\ subs[j].effects = <<Toast(TextRequired)>>
        /\ sending = FALSE

(* C4: construction fails, before any form state exists, exactly when both or *)
(* neither of groupName and topic is supplied; otherwise the form is created, *)
(* and a submission creates exactly when groupName is the one supplied and    *)
(* edits exactly when topic is.                                               *)
C4_ExactlyOneOf ==
    /\ phase = "error"
          => /\ (Truthy(groupName) <=> topic # NoTopic)
             /\ ~formCreated /\ formValues = defaultValues(NoTopic) /\ subs = <<>>
    /\ phase = "mounted"
          => /\ (Truthy(groupName) <=> topic = NoTopic)
             /\ formCreated
    /\ \A i \in DOMAIN subs :
          /\ subs[i].call = "create" <=> (GotToken(subs[i]) /\ Truthy(groupName))
          /\ subs[i].call = "edit" <=> (GotToken(subs[i]) /\ topic # NoTopic)

C4_Witness ==
    /\ phase = "error" /\ Truthy(groupName) /\ topic # NoTopic

(* C5: in edit mode, once the edit call has answered 200, the mutator has     *)
(* been invoked exactly once, with the topic data in which only title and     *)
(* text are replaced by the submitted values (no token field), and then the   *)
(* form has navigated to /group/topic/<id>; createNewGroupTopic is never      *)
(* called, and nothing is mutated before the 200 answer.                      *)
C5_EditSuccess ==
    \A i \in DOMAIN subs :
        subs[i].call = "edit" =>
            LET s == subs[i]
                m == OfKind(s, "mutate")
                n == OfKind(s, "navigate")
            IN /\ OfKind(s, "createNewGroupTopic") = <<>>
               /\ s.pc # "done" => m = <<>> /\ n = <<>>
               /\ (s.pc = "done" /\ s.response.status = StatusOK)
                     => /\ Len(m) = 1
                        /\ DOMAIN m[1].arg = DOMAIN topic[1].data
                        /\ "cf" \notin DOMAIN m[1].arg
                        /\ \A f \in DOMAIN m[1].arg :
                              m[1].arg[f] = IF f \in {"title", "text"}
                                            THEN s.data[f] ELSE topic[1].data[f]
                        /\ Len(n) = 1
                        /\ n[1].arg = "/group/topic/" \o ToString(topic[1].data.id)
                        /\ Position(s, "mutate") < Position(s, "navigate")

C5_Witness ==
    \E i \in DOMAIN subs :
        /\ subs[i].call = "edit" /\ subs[i].pc = "done"
        /\ subs[i].response.status = StatusOK
        /\ subs[i].data.title = "new" /\ subs[i].data.text = "new body"
        /\ subs[i].effects[Len(subs[i].effects)] = Navigate("/group/topic/7")

(* C6: in create mode, once the create call has answered 200 with data.id = n *)
(* the form has navigated exactly once, to /group/topic/n, has shown no      *)
(* toast, and has called neither editGroupTopic nor a mutator.               *)
C6_CreateSuccess ==
    \A i \in DOMAIN subs :
        subs[i].call = "create" =>
            LET s == subs[i]
            IN /\ OfKind(s, "editGroupTopic") = <<>>
               /\ OfKind(s, "mutate") = <<>>
               /\ (s.pc = "done" /\ s.response.status = StatusOK)
                     => /\ OfKind(s, "navigate")
                              = <<Navigate("/group/topic/" \o ToString(s.response.id))>>
                        /\ OfKind(s, "toast") = <<>>

C6_Witness ==
    \E i \in DOMAIN subs :
        /\ subs[i].call = "create" /\ subs[i].pc = "done"
        /\ subs[i].response = [status |-> 200, id |-> 42, message |-> ""]
        /\ subs[i].effects[Len(subs[i].effects)] = Navigate("/group/topic/42")

(* C7: when the write call of either mode answers with a status other than    *)
(* 200, exactly the server's data.message is shown as a toast, nothing is     *)
(* navigated to and the mutator is not invoked.                               *)
C7_ServerRejection ==
    \A i \in DOMAIN subs :
        LET s == subs[i]
        IN (s.pc = "done" /\ s.call # "none" /\ s.response.status # StatusOK)
              => /\ OfKind(s, "toast") = <<Toast(s.response.message)>>
                 /\ OfKind(s, "navigate") = <<>>
                 /\ OfKind(s, "mutate") = <<>>

C7_Witness ==
    \E i, j \in DOMAIN subs :
        /\ subs[i].call = "edit" /\ subs[i].pc = "done" /\ subs[i].response.status = 400
        /\ subs[i].effects[Len(subs[i].effects)] = Toast("biao ti guo chang")
        /\ subs[j].call = "edit" /\ subs[j].pc = "write"

(* C8: when the challenge resolves without a token the submission stops: no   *)
(* write call, no toast, no navigation, no mutation; the token field of the   *)
(* form state is left as it was and the "sending" flag is cleared.            *)
C8_Step ==
    /\ \A i \in DOMAIN subs' :
          NoToken(subs'[i].token)
             => /\ subs'[i].pc = "done"
                /\ subs'[i].call = "none"
                /\ subs'[i].effects = <<Execute>>
    /\ \A i \in DOMAIN subs :
          (subs[i].token = NotYet /\ NoToken(subs'[i].token))
             => sending' = FALSE /\ formValues' = formValues

C8_NoTokenStops == [][C8_Step]_vars

C8_Witness ==
    \E i, j \in DOMAIN subs :
        /\ GotToken(subs[i]) /\ subs[i].pc = "done"
        /\ subs[j].token = Undefined /\ subs[j].pc = "done"
        /\ formValues.cf = subs[i].token
        /\ sending = FALSE

(* C10: "sending" never blocks a confirmation and nothing is retried: each    *)
(* confirmation runs the challenge at most once and issues at most one write  *)
(* call, and the write calls never outnumber the confirmations that passed    *)
(* validation and obtained a token.                                           *)
C10_NoLockNoRetry ==
    /\ (phase = "mounted" /\ Len(subs) < MaxSubmits) => ENABLED Confirm
    /\ \A i \in DOMAIN subs :
          /\ Len(OfKind(subs[i], "execute")) <= 1
          /\ Len(WriteCalls(subs[i])) <= 1
    /\ SumWrites(Len(subs))
          <= Cardinality({i \in DOMAIN subs : subs[i].pc # "invalid" /\ GotToken(subs[i])})

C10_Witness ==
    /\ sending = TRUE
    /\ \E i, j \in DOMAIN subs :
          /\ i < j
          /\ subs[i].pc = "write"
          /\ subs[j].pc = "write"
          /\ Len(OfKind(subs[j], "execute")) = 1

=============================================================================
